---- MODULE Spec2Model ----
(***************************************************************************)
(* Model of cosma::Interval and cosma::Interval2D (src/cosma/interval.cpp).*)
(* The two classes are value objects with pure member functions.  The      *)
(* state machine is a caller that holds one Interval (iv) and one          *)
(* Interval2D (region), invokes one member function per step and records   *)
(* the call and what it returned in `call`.                                *)
(*                                                                         *)
(* All arithmetic is done on operands >= 0 and far below 2^31, where the   *)
(* int / std::size_t conversions of the source are value preserving; the   *)
(* only wrapped value the source produces on purpose is the std::size_t    *)
(* obtained from `return -1` in split_by, kept as SizeErr.                 *)
(***************************************************************************)
EXTENDS Integers, Sequences, FiniteSets, TLC

VARIABLES iv, region, call

vars == <<iv, region, call>>

\* ---------------------------------------------------------------- bounds
MaxCoord == 9        \* largest bound of an Interval of the 1-D caller
MaxDivisor == 4      \* largest divisor / index the 1-D caller passes
MaxCoord2D == 2      \* largest row / column bound of the 2-D caller
MaxDivisor2D == 3    \* largest divisor / index the 2-D caller passes

\* `return -1` from a function returning std::size_t (split_by): the all-ones
\* value; no element count within the bounds equals it.
SizeErr == -1

\* ------------------------------------------------------------ C arithmetic
\* C integer division truncates toward zero (b > 0 at every use).
CDiv(a, b) == IF a >= 0 THEN a \div b ELSE -((-a) \div b)

\* C remainder, a - (a / b) * b.
CMod(a, b) == a - CDiv(a, b) * b

\* ---------------------------------------------------------------- Interval
\* Interval::Interval(int start, int end): the members are set, then the two
\* checks throw std::runtime_error.
Interval_mut(start, end) ==
    [threw  |-> (start < 0 \/ end < 0) \/ start >= end,
     start_ |-> start,
     end_   |-> end]

Interval(start, end) ==
    [threw  |-> (start < 0 \/ end < 0) \/ start > end,
     start_ |-> start,
     end_   |-> end]

first(I) == I.start_

last(I) == I.end_

length(I) == I.end_ - I.start_ + 1

\* Interval::contains(int num)
contains(I, num) == num >= first(I) /\ num <= last(I)

\* Interval::contains(Interval other)
containsInterval(I, other) == first(I) <= first(other) /\ last(I) >= last(other)

\* Interval::subinterval(int divisor, int box_index)
subinterval_overlap(I, divisor, box_index) ==
    IF length(I) < divisor
    THEN I
    ELSE LET start == CDiv(length(I) * box_index, divisor)
             end   == CDiv(length(I) * (box_index + 1), divisor)
         IN  Interval(I.start_ + start, I.start_ + end)

subinterval_noshift(I, divisor, box_index) ==
    IF length(I) < divisor
    THEN I
    ELSE LET start == CDiv(length(I) * box_index, divisor)
             end   == CDiv(length(I) * (box_index + 1), divisor) - 1
         IN  Interval(start, end)

\* the alternative of the source comment: the bigger intervals first
subinterval_bigfirst(I, divisor, box_index) ==
    IF length(I) < divisor
    THEN I
    ELSE LET q     == CDiv(length(I), divisor)
             r     == CMod(length(I), divisor)
             start == q * box_index + (IF box_index < r THEN box_index ELSE r)
             len   == q + (IF box_index < r THEN 1 ELSE 0)
         IN  Interval(I.start_ + start, I.start_ + start + len - 1)

subinterval(I, divisor, box_index) ==
    IF length(I) < divisor
    THEN I
    ELSE LET start == CDiv(length(I) * box_index, divisor)
             end   == CDiv(length(I) * (box_index + 1), divisor) - 1
         IN  Interval(I.start_ + start, I.start_ + end)

\* Interval::divide_by(int divisor): the vector `divided`, index 0 at
\* position 1.
divide_by_mut(I, divisor) ==
    IF length(I) <= divisor
    THEN <<I>>
    ELSE [k \in 1..divisor |-> subinterval(I, divisor, k - 1)]

divide_by(I, divisor) ==
    IF length(I) < divisor
    THEN <<I>>
    ELSE [k \in 1..divisor |-> subinterval(I, divisor, k - 1)]

\* Interval::subinterval_index(int divisor, int elem)
subinterval_index(I, divisor, elem) ==
    LET subset_size  == CDiv(length(I), divisor)
        relative     == elem - first(I)
        subint_index == CDiv(relative, subset_size)
    IN  subint_index

\* Interval::subinterval_offset(int divisor, int elem)
subinterval_offset(I, divisor, elem) ==
    LET subset_size  == CDiv(length(I), divisor)
        relative     == elem - first(I)
        subint_index == CDiv(relative, subset_size)
        offset       == relative - subint_index * subset_size
    IN  offset

\* Interval::locate_in_subinterval(int divisor, int elem)
locate_in_subinterval(I, divisor, elem) ==
    LET subset_size  == CDiv(length(I), divisor)
        relative     == elem - first(I)
        subint_index == CDiv(relative, subset_size)
        offset       == relative - subint_index * subset_size
    IN  <<subint_index, offset>>

\* Interval::locate_in_interval(int divisor, int subint_index, int subint_offset)
locate_in_interval(I, divisor, subint_index, subint_offset) ==
    LET subset_size == CDiv(length(I), divisor)
    IN  subint_index * subset_size + subint_offset

\* Interval::subinterval_containing(int divisor, int elem)
subinterval_containing(I, divisor, elem) ==
    subinterval(I, divisor, subinterval_index(I, divisor, elem))

\* Interval::largest_subinterval_length(int divisor)
largest_subinterval_length_mut(I, divisor) ==
    CDiv(length(I), divisor) + (IF CMod(length(I), divisor) = 0 THEN 1 ELSE 0)

largest_subinterval_length(I, divisor) ==
    CDiv(length(I), divisor) + (IF CMod(length(I), divisor) = 0 THEN 0 ELSE 1)

\* Interval::smallest_subinterval_length(int divisor)
smallest_subinterval_length(I, divisor) == CDiv(length(I), divisor)

\* -------------------------------------------------------------- Interval2D
\* Interval2D::Interval2D(Interval row, Interval col)
Interval2D(row, col) == [threw |-> FALSE, rows |-> row, cols |-> col]

\* Interval2D::Interval2D(int, int, int, int): either Interval constructor
\* may throw.
Interval2D4(row_start, row_end, col_start, col_end) ==
    [threw |-> Interval(row_start, row_end).threw
                 \/ Interval(col_start, col_end).threw,
     rows  |-> Interval(row_start, row_end),
     cols  |-> Interval(col_start, col_end)]

\* Interval2D::split_by(int divisor, int index)
split_by_mut(R, divisor, index) ==
    IF index > divisor
    THEN SizeErr
    ELSE IF length(R.cols) < 0 \/ length(R.cols) < divisor
         THEN SizeErr
         ELSE length(R.rows) * length(subinterval(R.cols, divisor, index))

split_by(R, divisor, index) ==
    IF index >= divisor
    THEN SizeErr
    ELSE IF length(R.cols) < 0 \/ length(R.cols) < divisor
         THEN SizeErr
         ELSE length(R.rows) * length(subinterval(R.cols, divisor, index))

\* Interval2D::size()
size(R) == split_by(R, 1, 0)

\* Interval2D::contains(int row, int col)
contains2D(R, row, col) == contains(R.rows, row) /\ contains(R.cols, col)

\* Interval2D::contains(Interval2D other)
containsRegion(R, other) ==
    containsInterval(R.rows, other.rows) /\ containsInterval(R.cols, other.cols)

\* Interval2D::local_index(int row, int col)
local_index_rowmajor(R, row, col) ==
    IF ~contains2D(R, row, col)
    THEN -1
    ELSE (row - first(R.rows)) * length(R.cols) + (col - first(R.cols))

local_index(R, row, col) ==
    IF ~contains2D(R, row, col)
    THEN -1
    ELSE (col - first(R.cols)) * length(R.rows) + (row - first(R.rows))

\* Interval2D::global_index(int local_index)
global_index(R, li) ==
    LET x == first(R.rows) + CMod(li, length(R.rows))
        y == first(R.cols) + CDiv(li, length(R.rows))
    IN  <<x, y>>

\* Interval2D::submatrix(int divisor, int index)
submatrix(R, divisor, index) ==
    Interval2D(R.rows, subinterval(R.cols, divisor, index))

\* ------------------------------------------------------------- the caller
\* One recorded call: the member function, its int arguments, the ints and
\* the Intervals it returned, and whether it left by an exception.
Call(op, args, ints, ivs, threw) ==
    [op |-> op, args |-> args, ints |-> ints, ivs |-> ivs, threw |-> threw]

Init ==
    /\ \E a \in 0..MaxCoord : \E b \in a..MaxCoord :
          /\ iv = Interval(a, b)
          /\ call = Call("Interval", <<a, b>>, <<>>, <<>>, FALSE)
    /\ region = Interval2D(Interval(0, 0), Interval(0, 0))

\* Interval(a, b).  When the constructor throws no object exists: iv.threw
\* is set and no member function can be called until the next construction.
Construct ==
    \E a \in -1..MaxCoord : \E b \in -1..MaxCoord :
       LET I == Interval(a, b)
       IN  /\ iv' = I
           /\ call' = Call("Interval", <<a, b>>, <<>>, <<>>, I.threw)
           /\ UNCHANGED region

\* iv.first(), iv.last(), iv.length()
Accessors ==
    /\ ~iv.threw
    /\ call' = Call("first_last_length", <<>>,
                    <<first(iv), last(iv), length(iv)>>, <<>>, FALSE)
    /\ UNCHANGED <<iv, region>>

Subinterval ==
    /\ ~iv.threw
    /\ \E d \in 1..MaxDivisor : \E i \in 0..MaxDivisor :
       LET S == subinterval(iv, d, i)
       IN  /\ call' = Call("subinterval", <<d, i>>, <<>>,
                           IF S.threw THEN <<>> ELSE <<S>>, S.threw)
           /\ UNCHANGED <<iv, region>>

DivideBy ==
    /\ ~iv.threw
    /\ \E d \in 1..MaxDivisor :
       LET V == divide_by(iv, d)
           t == \E k \in 1..Len(V) : V[k].threw
       IN  /\ call' = Call("divide_by", <<d>>, <<>>,
                           IF t THEN <<>> ELSE V, t)
           /\ UNCHANGED <<iv, region>>

\* The three locating functions divide by length() / divisor; a call with
\* length() < divisor divides by zero and is not issued.
SubintervalIndex ==
    /\ ~iv.threw
    /\ \E d \in 1..MaxDivisor : \E x \in 0..MaxCoord :
       /\ d <= length(iv)
       /\ call' = Call("subinterval_index", <<d, x>>,
                       <<subinterval_index(iv, d, x)>>, <<>>, FALSE)
       /\ UNCHANGED <<iv, region>>

SubintervalOffset ==
    /\ ~iv.threw
    /\ \E d \in 1..MaxDivisor : \E x \in 0..MaxCoord :
       /\ d <= length(iv)
       /\ call' = Call("subinterval_offset", <<d, x>>,
                       <<subinterval_offset(iv, d, x)>>, <<>>, FALSE)
       /\ UNCHANGED <<iv, region>>

LocateInSubinterval ==
    /\ ~iv.threw
    /\ \E d \in 1..MaxDivisor : \E x \in 0..MaxCoord :
       /\ d <= length(iv)
       /\ call' = Call("locate_in_subinterval", <<d, x>>,
                       locate_in_subinterval(iv, d, x), <<>>, FALSE)
       /\ UNCHANGED <<iv, region>>

\* The caller feeds the pair just returned by locate_in_subinterval back
\* into locate_in_interval, with the same divisor; the element is kept in
\* args for reference.
LocateInInterval ==
    /\ ~iv.threw
    /\ call.op = "locate_in_subinterval"
    /\ call' = Call("locate_in_interval", call.args,
                    <<locate_in_interval(iv, call.args[1],
                                         call.ints[1], call.ints[2])>>,
                    <<>>, FALSE)
    /\ UNCHANGED <<iv, region>>

SubintervalContaining ==
    /\ ~iv.threw
    /\ \E d \in 1..MaxDivisor : \E x \in 0..MaxCoord :
       /\ d <= length(iv)
       /\ LET S == subinterval_containing(iv, d, x)
          IN  call' = Call("subinterval_containing", <<d, x>>, <<>>,
                           IF S.threw THEN <<>> ELSE <<S>>, S.threw)
       /\ UNCHANGED <<iv, region>>

SubintervalLengths ==
    /\ ~iv.threw
    /\ \E d \in 1..MaxDivisor :
       /\ call' = Call("largest_smallest_subinterval_length", <<d>>,
                       <<largest_subinterval_length(iv, d),
                         smallest_subinterval_length(iv, d)>>, <<>>, FALSE)
       /\ UNCHANGED <<iv, region>>

Next ==
    \/ Construct
    \/ Accessors
    \/ Subinterval
    \/ DivideBy
    \/ SubintervalIndex
    \/ SubintervalOffset
    \/ LocateInSubinterval
    \/ LocateInInterval
    \/ SubintervalContaining
    \/ SubintervalLengths

Spec == Init /\ [][Next]_vars

\* ---------------------------------------------------------- the 2-D caller
Init2D ==
    /\ iv = Interval(0, 0)
    /\ \E r0 \in 0..MaxCoord2D : \E r1 \in r0..MaxCoord2D :
       \E c0 \in 0..MaxCoord2D : \E c1 \in c0..MaxCoord2D :
          /\ region = Interval2D(Interval(r0, r1), Interval(c0, c1))
          /\ call = Call("Interval2D", <<r0, r1, c0, c1>>, <<>>, <<>>, FALSE)

Construct2D ==
    \E r0 \in -1..MaxCoord2D : \E r1 \in -1..MaxCoord2D :
    \E c0 \in -1..MaxCoord2D : \E c1 \in -1..MaxCoord2D :
       LET R == Interval2D4(r0, r1, c0, c1)
       IN  /\ region' = R
           /\ call' = Call("Interval2D", <<r0, r1, c0, c1>>, <<>>, <<>>, R.threw)
           /\ UNCHANGED iv

Size ==
    /\ ~region.threw
    /\ call' = Call("size", <<>>, <<size(region)>>, <<>>, FALSE)
    /\ UNCHANGED <<iv, region>>

SplitBy ==
    /\ ~region.threw
    /\ \E d \in 1..MaxDivisor2D : \E i \in 0..MaxDivisor2D :
       /\ call' = Call("split_by", <<d, i>>, <<split_by(region, d, i)>>,
                       <<>>, FALSE)
       /\ UNCHANGED <<iv, region>>

Submatrix ==
    /\ ~region.threw
    /\ \E d \in 1..MaxDivisor2D : \E i \in 0..MaxDivisor2D :
       LET M == submatrix(region, d, i)
       IN  /\ call' = Call("submatrix", <<d, i>>, <<>>,
                           IF M.cols.threw THEN <<>> ELSE <<M.rows, M.cols>>,
                           M.cols.threw)
           /\ UNCHANGED <<iv, region>>

LocalIndex ==
    /\ ~region.threw
    /\ \E r \in 0..MaxCoord2D + 1 : \E c \in 0..MaxCoord2D + 1 :
       /\ call' = Call("local_index", <<r, c>>,
                       <<local_index(region, r, c)>>, <<>>, FALSE)
       /\ UNCHANGED <<iv, region>>

GlobalIndex ==
    /\ ~region.threw
    /\ \E k \in 0..size(region) :
       /\ call' = Call("global_index", <<k>>, global_index(region, k),
                       <<>>, FALSE)
       /\ UNCHANGED <<iv, region>>

Next2D ==
    \/ Construct2D
    \/ Size
    \/ SplitBy
    \/ Submatrix
    \/ LocalIndex
    \/ GlobalIndex

Spec2D == Init2D /\ [][Next2D]_vars

\* ============================================================ properties
\* Mathematical floor of n / d for n >= 0, d > 0, independent of CDiv.
Floor(n, d) == CHOOSE q \in 0..n : q * d <= n /\ n < (q + 1) * d

\* The elements of an Interval.
Elems(I) == first(I)..last(I)

\* ------------------------------------------------------------------- C1
\* C1: for every Interval I of length L and every d in 1..L, the d
\* sub-intervals subinterval(d, 0..d-1) partition I exactly: each is built
\* without the constructor error, is non-empty and contained in I; they are
\* pairwise disjoint; consecutive ones are adjacent; the first starts at
\* I.first(), the last ends at I.last(); their union is I.
SubintervalsPartition ==
    ~iv.threw =>
      \A d \in 1..length(iv) :
        LET S(i) == subinterval(iv, d, i)
        IN  /\ \A i \in 0..d-1 :
                 /\ ~S(i).threw
                 /\ first(S(i)) <= last(S(i))
                 /\ containsInterval(iv, S(i))
            /\ \A i \in 0..d-1 : \A j \in i+1..d-1 :
                 Elems(S(i)) \cap Elems(S(j)) = {}
            /\ \A i \in 0..d-2 : last(S(i)) + 1 = first(S(i + 1))
            /\ first(S(0)) = first(iv)
            /\ last(S(d - 1)) = last(iv)
            /\ UNION {Elems(S(i)) : i \in 0..d-1} = Elems(iv)

\* the last piece of an uneven split of an interval that does not start at 0
SubintervalsPartitionWitness ==
    /\ call.op = "subinterval"
    /\ ~call.threw
    /\ first(iv) > 0
    /\ call.args[1] >= 2
    /\ call.args[1] <= length(iv)
    /\ length(iv) % call.args[1] # 0
    /\ call.args[2] = call.args[1] - 1
    /\ last(call.ivs[1]) = last(iv)

\* ------------------------------------------------------------------- C2
\* C2: subinterval(d, i) of the Interval with start a and length L is exactly
\* [a + floor(L*i/d), a + floor(L*(i+1)/d) - 1] for 1 <= d <= L, 0 <= i < d;
\* Interval(0,9) splits by 3 into [0,2],[3,5],[6,9] and by 4 into
\* [0,1],[2,4],[5,6],[7,9].
SubintervalExactRange ==
    ~iv.threw =>
      /\ \A d \in 1..length(iv) : \A i \in 0..d-1 :
           LET S == subinterval(iv, d, i)
           IN  /\ ~S.threw
               /\ first(S) = first(iv) + Floor(length(iv) * i, d)
               /\ last(S) = first(iv) + Floor(length(iv) * (i + 1), d) - 1
      /\ (first(iv) = 0 /\ last(iv) = 9) =>
           /\ <<subinterval(iv, 3, 0), subinterval(iv, 3, 1),
                subinterval(iv, 3, 2)>>
                = <<Interval(0, 2), Interval(3, 5), Interval(6, 9)>>
           /\ divide_by(iv, 4)
                = <<Interval(0, 1), Interval(2, 4), Interval(5, 6),
                    Interval(7, 9)>>
      /\ (call.op = "subinterval" /\ call.args[1] <= length(iv)
            /\ call.args[2] < call.args[1]) =>
           /\ ~call.threw
           /\ first(call.ivs[1])
                = first(iv) + Floor(length(iv) * call.args[2], call.args[1])

SubintervalExactRangeWitness ==
    /\ call.op = "subinterval"
    /\ iv = Interval(0, 9)
    /\ call.args = <<4, 1>>
    /\ call.ivs = <<Interval(2, 4)>>

\* ------------------------------------------------------------------- C3
\* C3 as stated: when d (1 <= d <= L) does not divide L, the larger pieces are
\* the lower-indexed ones: length(subinterval(d, i)) >= length(subinterval(d, j))
\* for all 0 <= i < j < d.
LargerPiecesLowerIndexed ==
    ~iv.threw =>
      \A d \in 1..length(iv) :
        length(iv) % d # 0 =>
          \A i \in 0..d-1 : \A j \in i+1..d-1 :
            length(subinterval(iv, d, i)) >= length(subinterval(iv, d, j))

\* C3 amended: when d (1 <= d <= L) does not divide L, every piece has length
\* floor(L/d) or floor(L/d) + 1, the piece of index 0 has the smaller length
\* floor(L/d) and the piece of index d-1 the larger length floor(L/d) + 1; the
\* sizes in between follow the floor rule and are not ordered by index.
SmallerPieceFirstLargerLast ==
    ~iv.threw =>
      \A d \in 1..length(iv) :
        length(iv) % d # 0 =>
          LET q == Floor(length(iv), d)
          IN  /\ \A i \in 0..d-1 :
                   length(subinterval(iv, d, i)) \in {q, q + 1}
              /\ length(subinterval(iv, d, 0)) = q
              /\ length(subinterval(iv, d, d - 1)) = q + 1

\* a larger piece with a smaller one before it: Interval of length 10 split
\* by 4, piece 1 has length 3 while piece 0 has length 2
SmallerPieceFirstWitness ==
    /\ call.op = "subinterval"
    /\ length(iv) = 10
    /\ call.args = <<4, 1>>
    /\ length(call.ivs[1]) = 3
    /\ length(subinterval(iv, 4, 0)) = 2

\* ------------------------------------------------------------------- C4
\* C4: round trip of element location, for an Interval with any start: if
\* (i, off) = locate_in_subinterval(d, x) for x in the Interval and
\* 1 <= d <= length, then locate_in_interval(d, i, off) = x.
LocateRoundTrip ==
    (call.op = "locate_in_interval" /\ contains(iv, call.args[2])) =>
       call.ints[1] = call.args[2]

\* ------------------------------------------------------------------- C5
\* C5: for x in the Interval and 1 <= d <= length, locate_in_subinterval(d, x)
\* returns (i, off) with 0 <= i < d, subinterval(d, i).first() + off = x and
\* off < subinterval(d, i).length(); subinterval_index and subinterval_offset
\* return the same i and off; subinterval_containing(d, x) contains x.
LocateAgreesWithSplit ==
    LET d == call.args[1]
        x == call.args[2]
    IN  /\ (call.op = "locate_in_subinterval" /\ contains(iv, x)) =>
             LET i   == call.ints[1]
                 off == call.ints[2]
             IN  /\ 0 <= i /\ i < d
                 /\ first(subinterval(iv, d, i)) + off = x
                 /\ off < length(subinterval(iv, d, i))
                 /\ subinterval_index(iv, d, x) = i
                 /\ subinterval_offset(iv, d, x) = off
        /\ (call.op = "subinterval_index" /\ contains(iv, x)) =>
             call.ints[1] = locate_in_subinterval(iv, d, x)[1]
        /\ (call.op = "subinterval_offset" /\ contains(iv, x)) =>
             call.ints[1] = locate_in_subinterval(iv, d, x)[2]
        /\ (call.op = "subinterval_containing" /\ contains(iv, x)) =>
             /\ ~call.threw
             /\ contains(call.ivs[1], x)

\* ------------------------------------------------------------------- C6
\* C6: Interval(a, b) fails exactly when a < 0 or b < 0 or a > b; otherwise it
\* succeeds with first() = a and last() = b, so every constructed Interval
\* has 0 <= first() <= last().
ConstructorErrorExactly ==
    /\ call.op = "Interval" =>
         LET a == call.args[1]
             b == call.args[2]
         IN  /\ call.threw <=> (a < 0 \/ b < 0 \/ a > b)
             /\ iv.threw = call.threw
             /\ ~call.threw => (first(iv) = a /\ last(iv) = b)
    /\ ~iv.threw => (0 <= first(iv) /\ first(iv) <= last(iv))
    /\ call.op = "first_last_length" =>
         call.ints = <<iv.start_, iv.end_, Cardinality(Elems(iv))>>

\* Interval(3, 2): both bounds are non-negative and the constructor throws
\* on start > end alone, so no object exists afterwards
ConstructorErrorWitness ==
    /\ call.op = "Interval"
    /\ call.args = <<3, 2>>
    /\ call.threw
    /\ iv.threw

\* ------------------------------------------------------------------- C7
\* C7 as stated: for every divisor d >= 1, divide_by(d) returns exactly d
\* sub-intervals and its i-th element equals subinterval(d, i).
DivideByReturnsDivisorMany ==
    call.op = "divide_by" =>
       /\ Len(call.ivs) = call.args[1]
       /\ \A i \in 0..call.args[1]-1 :
            call.ivs[i + 1] = subinterval(iv, call.args[1], i)

\* C7 amended: for every divisor d with 1 <= d <= length(), divide_by(d)
\* returns exactly d sub-intervals and its i-th element equals
\* subinterval(d, i) for every i in [0, d); for d > length() it returns the
\* single Interval itself (which is what subinterval(d, i) returns then).
DivideByWithinLength ==
    /\ call.op = "divide_by" =>
         LET d == call.args[1]
         IN  /\ ~call.threw
             /\ IF d <= length(iv)
                THEN /\ Len(call.ivs) = d
                     /\ \A i \in 0..d-1 : call.ivs[i + 1] = subinterval(iv, d, i)
                ELSE /\ call.ivs = <<iv>>
                     /\ \A i \in 0..d-1 : subinterval(iv, d, i) = iv
    /\ ~iv.threw =>
         \A d \in 1..length(iv) :
           /\ Len(divide_by(iv, d)) = d
           /\ first(divide_by(iv, d)[1]) = first(iv)
           /\ last(divide_by(iv, d)[d]) = last(iv)

\* the divisor equal to the length: every piece is one element
DivideByWithinLengthWitness ==
    /\ call.op = "divide_by"
    /\ call.args[1] = length(iv)
    /\ length(iv) >= 3
    /\ Len(call.ivs) = length(iv)
    /\ \A k \in 1..Len(call.ivs) : length(call.ivs[k]) = 1

\* ------------------------------------------------------------------ C10
\* C10: for every Interval of length L and every d in 1..L the lengths of the
\* d sub-intervals differ pairwise by at most 1, their maximum is
\* largest_subinterval_length(d) and their minimum is
\* smallest_subinterval_length(d).
SubintervalLengthsBalanced ==
    ~iv.threw =>
      /\ \A d \in 1..length(iv) :
           LET Ls == {length(subinterval(iv, d, i)) : i \in 0..d-1}
           IN  /\ \A m \in Ls : \A n \in Ls : m - n <= 1
               /\ largest_subinterval_length(iv, d) \in Ls
               /\ \A m \in Ls : m <= largest_subinterval_length(iv, d)
               /\ smallest_subinterval_length(iv, d) \in Ls
               /\ \A m \in Ls : m >= smallest_subinterval_length(iv, d)
      /\ (call.op = "largest_smallest_subinterval_length"
            /\ call.args[1] <= length(iv)) =>
           LET d  == call.args[1]
               Ls == {length(subinterval(iv, d, i)) : i \in 0..d-1}
           IN  /\ call.ints[1] \in Ls /\ call.ints[2] \in Ls
               /\ \A m \in Ls : call.ints[2] <= m /\ m <= call.ints[1]

SubintervalLengthsWitness ==
    /\ call.op = "largest_smallest_subinterval_length"
    /\ call.args[1] >= 2
    /\ call.args[1] <= length(iv)
    /\ length(iv) % call.args[1] # 0
    /\ call.ints[1] = call.ints[2] + 1

\* ------------------------------------------------------------------- C8
\* The cells of a region.
Cells(R) == Elems(R.rows) \X Elems(R.cols)

\* C8: for (r, c) inside an Interval2D, local_index(r, c) =
\* (c - cols.first()) * rows.length() + (r - rows.first()), it lies in
\* [0, size()) and is distinct for distinct cells; global_index is its
\* inverse both ways; outside the region local_index returns -1.
LocalIndexColumnMajorBijection ==
    ~region.threw =>
      LET R == region
      IN  /\ \A r \in 0..MaxCoord2D + 1 : \A c \in 0..MaxCoord2D + 1 :
               IF <<r, c>> \in Cells(R)
               THEN /\ local_index(R, r, c)
                         = (c - first(R.cols)) * Cardinality(Elems(R.rows))
                             + (r - first(R.rows))
                    /\ local_index(R, r, c) \in 0..size(R)-1
                    /\ global_index(R, local_index(R, r, c)) = <<r, c>>
               ELSE local_index(R, r, c) = -1
          /\ \A p \in Cells(R) : \A q \in Cells(R) :
               p # q => local_index(R, p[1], p[2]) # local_index(R, q[1], q[2])
          /\ \A k \in 0..size(R)-1 :
               /\ global_index(R, k) \in Cells(R)
               /\ local_index(R, global_index(R, k)[1], global_index(R, k)[2]) = k
          /\ (call.op = "local_index" /\ <<call.args[1], call.args[2]>> \in Cells(R)) =>
               global_index(R, call.ints[1]) = call.args
          /\ (call.op = "global_index" /\ call.args[1] < size(R)) =>
               local_index(R, call.ints[1], call.ints[2]) = call.args[1]

\* index 3 of the 2 x 3 region rows [1,2], cols [0,2] is row 2 of column 1
LocalIndexWitness ==
    /\ call.op = "global_index"
    /\ region.rows = Interval(1, 2)
    /\ region.cols = Interval(0, 2)
    /\ call.args = <<3>>
    /\ call.ints = <<2, 1>>

\* ------------------------------------------------------------------- C9
RECURSIVE SumSplit(_, _, _)
\* split_by(d, 0) + ... + split_by(d, n - 1)
SumSplit(R, d, n) ==
    IF n = 0 THEN 0 ELSE SumSplit(R, d, n - 1) + split_by(R, d, n - 1)

\* C9: for every region and d in 1..cols.length(), submatrix(d, i) keeps the
\* rows and has cols = cols.subinterval(d, i); the d submatrices are pairwise
\* disjoint and cover the region; split_by(d, i) is the element count of
\* submatrix(d, i) and the counts sum to size(); split_by returns the error
\* value instead of a size when i >= d or cols.length() < d.
SplitOnlyColumns ==
    ~region.threw =>
      LET R == region
      IN  /\ \A d \in 1..length(R.cols) :
               LET M(i) == submatrix(R, d, i)
               IN  /\ \A i \in 0..d-1 :
                        /\ M(i).rows = R.rows
                        /\ M(i).cols = subinterval(R.cols, d, i)
                        /\ ~M(i).cols.threw
                        /\ containsRegion(R, M(i))
                        /\ split_by(R, d, i) = Cardinality(Cells(M(i)))
                        /\ split_by(R, d, i) = size(M(i))
                   /\ \A i \in 0..d-1 : \A j \in i+1..d-1 :
                        Cells(M(i)) \cap Cells(M(j)) = {}
                   /\ UNION {Cells(M(i)) : i \in 0..d-1} = Cells(R)
                   /\ SumSplit(R, d, d) = size(R)
          /\ size(R) = Cardinality(Cells(R))
          /\ \A d \in 1..MaxDivisor2D + 1 : \A i \in 0..MaxDivisor2D + 1 :
               (i >= d \/ length(R.cols) < d) <=> split_by(R, d, i) = SizeErr
          /\ call.op = "split_by" =>
               IF call.args[2] >= call.args[1] \/ length(R.cols) < call.args[1]
               THEN call.ints = <<SizeErr>>
               ELSE call.ints
                      = <<Cardinality(Cells(submatrix(R, call.args[1], call.args[2])))>>
          /\ (call.op = "submatrix" /\ call.args[1] <= length(R.cols)
                /\ call.args[2] < call.args[1]) =>
               /\ ~call.threw
               /\ call.ivs[1] = R.rows

\* the second half of a 2 x 3 region split by 2 has 2 columns, 4 elements
SplitOnlyColumnsWitness ==
    /\ call.op = "split_by"
    /\ length(region.rows) = 2
    /\ length(region.cols) = 3
    /\ call.args = <<2, 1>>
    /\ call.ints = <<4>>

====
